---- MODULE Spec2Model ----
(***************************************************************************)
(* Model of notes-data-fetcher: NotesDataFetcher (notes_data_fetcher.py),  *)
(* Helper.get_output_path (helper.py) and the pydantic model Note          *)
(* (note.py).                                                              *)
(*                                                                         *)
(* Python values are modelled as follows.                                  *)
(*   dict      a function whose DOMAIN is the set of keys that are present *)
(*   list      a sequence                                                  *)
(*   str       a string; "a" \o "b" is Python's a + b                      *)
(*   datetime  a number of clock ticks since 1970-01-01 00:00:00, with     *)
(*             TicksPerSec ticks in a second                               *)
(*   file      [exists, path, header, rows]: a worksheet on disk           *)
(* A raised exception is a result record with ok = FALSE.                  *)
(***************************************************************************)
EXTENDS Integers, Sequences, FiniteSets, TLC

\* ---- bounds of the model ----
MaxClock == 3
TicksPerSec == 2
MaxRespSize == 4

VARIABLES
    clock,            \* datetime.now(), in ticks
    default_date,     \* the default of update_input_date's current_date
    environ,          \* os.environ after load_dotenv()
    base_url,         \* self.base_url
    config_file,      \* the state store, config.xlsx
    output_file,      \* the output document written by the current run
    request_url,      \* the URL requested by the current run ("" if none)
    pc,               \* position of the program
    topic_ids,        \* process()'s argument
    input_date,       \* process()'s local input_date
    api_data,         \* process()'s local api_data
    filtered_notes,   \* process()'s local filtered_notes
    calls,            \* the stages the current run has invoked, in order
    io_log,           \* the I/O this execution has performed
    config_at_start,  \* config_file as it was when the current run began
    last_written,     \* the timestamp held by the state store
    write_at          \* clock when the current run's output was written

vars == <<clock, default_date, environ, base_url, config_file, output_file,
          request_url, pc, topic_ids, input_date, api_data, filtered_notes,
          calls, io_log, config_at_start, last_written, write_at>>

\* ---------------------------------------------------------------------
\* Python helpers
\* ---------------------------------------------------------------------

\* d.get(k, default)
Get(d, k, default) == IF k \in DOMAIN d THEN d[k] ELSE default

\* A str or a list of str, as isinstance(x, str) tells them apart.
PyStr(s) == [kind |-> "str", s |-> s, l |-> <<>>]
PyList(l) == [kind |-> "list", s |-> "", l |-> l]

\* Iterating a str yields its characters.
Chars(s) ==
    CASE s = "TDS" -> <<"T", "D", "S">>
      [] s = "tds" -> <<"t", "d", "s">>
      [] s = "" -> <<>>
      [] OTHER -> <<s>>

\* Iterating a str or a list.
Iter(x) == IF x.kind = "str" THEN Chars(x.s) ELSE x.l

RECURSIVE Join(_, _)
\* sep.join(items)
Join(sep, items) ==
    IF items = <<>> THEN ""
    ELSE IF Len(items) = 1 THEN items[1]
    ELSE items[1] \o sep \o Join(sep, Tail(items))

\* ---------------------------------------------------------------------
\* Dates
\* ---------------------------------------------------------------------
Seconds(t) == t \div TicksPerSec

\* dt.strftime("%Y-%m-%d %H:%M:%S"): the sub-second part is dropped.
strftime_iso(t) == "1970-01-01 00:00:0" \o ToString(Seconds(t))

\* dt.strftime("%Y%m%d_%H%M%S")
strftime_compact(t) == "19700101_00000" \o ToString(Seconds(t))

\* pd.to_datetime(s) of a string cell.
to_datetime(s) ==
    LET hits == {sec \in 0..Seconds(MaxClock) : strftime_iso(sec * TicksPerSec) = s}
    IN  IF hits = {} THEN [ok |-> FALSE, t |-> 0]
        ELSE [ok |-> TRUE, t |-> (CHOOSE sec \in hits : TRUE) * TicksPerSec]

\* ---------------------------------------------------------------------
\* Worksheets
\* ---------------------------------------------------------------------
NoFile == [exists |-> FALSE, path |-> "", header |-> <<>>, rows |-> <<>>]

DateCell(t) == [type |-> "datetime", t |-> t, s |-> ""]
StrCell(s) == [type |-> "str", t |-> 0, s |-> s]

ConfigPath == "config.xlsx"

\* pd.DataFrame(...).to_excel(path, index=False)
to_excel(df, path) ==
    [exists |-> TRUE, path |-> path, header |-> df.columns, rows |-> df.data]

\* pd.read_excel(path): the data rows of the sheet, or an error.
read_excel(file, io_ok) ==
    IF io_ok /\ file.exists THEN [ok |-> TRUE, rows |-> file.rows]
    ELSE [ok |-> FALSE, rows |-> <<>>]

\* The column names pandas derives from the dict literal of one row.
RowKeys == <<"topic_id", "note", "images">>

\* pd.DataFrame(notes): the columns are the keys of the dicts, so a frame
\* built from an empty list has no columns.
DataFrame_notes(notes) ==
    [columns |-> IF notes = <<>> THEN <<>> ELSE RowKeys,
     data |-> [i \in 1..Len(notes) |->
                  <<notes[i].topic_id, notes[i].note, notes[i].images>>]]

\* pd.DataFrame({"LastFetchDate": [current_date]})
DataFrame_date(current_date) ==
    [columns |-> <<"LastFetchDate">>, data |-> << <<DateCell(current_date)>> >>]

\* ---------------------------------------------------------------------
\* note.py
\* ---------------------------------------------------------------------

\* Note(**note_data) with a missing note text defaulting to "".
Note_text_optional(note_data) ==
    [ok |-> TRUE,
     note |-> IF "n_ans" \in DOMAIN note_data THEN note_data.n_ans
              ELSE IF "note" \in DOMAIN note_data THEN note_data.note
              ELSE "",
     has_images |-> "n_imgs" \in DOMAIN note_data \/ "note_images" \in DOMAIN note_data,
     note_images |-> IF "n_imgs" \in DOMAIN note_data THEN note_data.n_imgs
                     ELSE IF "note_images" \in DOMAIN note_data THEN note_data.note_images
                     ELSE <<>>]

\* Note(**note_data): each field is taken from its alias, or (populate_by_name)
\* from its own name; note is required, note_images defaults to None.
Note(note_data) ==
    [ok |-> "n_ans" \in DOMAIN note_data \/ "note" \in DOMAIN note_data,
     note |-> IF "n_ans" \in DOMAIN note_data THEN note_data.n_ans
              ELSE IF "note" \in DOMAIN note_data THEN note_data.note
              ELSE "",
     has_images |-> "n_imgs" \in DOMAIN note_data \/ "note_images" \in DOMAIN note_data,
     note_images |-> IF "n_imgs" \in DOMAIN note_data THEN note_data.n_imgs
                     ELSE IF "note_images" \in DOMAIN note_data THEN note_data.note_images
                     ELSE <<>>]

\* Note.images
images(note_obj) ==
    IF note_obj.has_images /\ note_obj.note_images # <<>>
    THEN Join(", ", note_obj.note_images)
    ELSE ""

\* ---------------------------------------------------------------------
\* NotesDataFetcher.extract_notes_by_topic_ids
\* ---------------------------------------------------------------------

\* topic.get("t_m_id") in topic_ids, ignoring case.
TopicMatches_nocase(topic, ids) ==
    /\ "t_m_id" \in DOMAIN topic
    /\ \E i \in DOMAIN ids :
          \/ ids[i] = topic.t_m_id
          \/ ids[i] = "TDS" /\ topic.t_m_id = "tds"
          \/ ids[i] = "tds" /\ topic.t_m_id = "TDS"

\* topic.get("t_m_id") in topic_ids
TopicMatches(topic, ids) ==
    /\ "t_m_id" \in DOMAIN topic
    /\ \E i \in DOMAIN ids : ids[i] = topic.t_m_id

RECURSIVE NoteLoop(_, _, _)
\* for note_data in topic.get("n_data", []): ...
NoteLoop(topic, n_data, acc) ==
    IF n_data = <<>> THEN [ok |-> TRUE, rows |-> acc]
    ELSE LET note_obj == Note(Head(n_data))
         IN  IF ~note_obj.ok THEN [ok |-> FALSE, rows |-> <<>>]
             ELSE NoteLoop(topic, Tail(n_data),
                           Append(acc, [topic_id |-> topic.t_m_id,
                                        note |-> note_obj.note,
                                        images |-> images(note_obj)]))

RECURSIVE TopicLoop(_, _, _)
\* for topic in data.get("data", []): ...
TopicLoop(topics, ids, acc) ==
    IF topics = <<>> THEN [ok |-> TRUE, rows |-> acc]
    ELSE LET topic == Head(topics)
         IN  IF TopicMatches(topic, ids)
             THEN LET r == NoteLoop(topic, Get(topic, "n_data", <<>>), acc)
                  IN  IF r.ok THEN TopicLoop(Tail(topics), ids, r.rows) ELSE r
             ELSE TopicLoop(Tail(topics), ids, acc)

extract_notes_by_topic_ids(data, tids) ==
    LET ids == IF tids.kind = "str" THEN <<tids.s>> ELSE tids.l
    IN  TopicLoop(Get(data, "data", <<>>), ids, <<>>)

\* ---------------------------------------------------------------------
\* Helper.get_output_path, NotesDataFetcher.save_to_excel, update_input_date
\* ---------------------------------------------------------------------
get_output_path(tids, now) ==
    "output" \o "/" \o Join("_", Iter(tids)) \o "_notes_"
        \o strftime_compact(now) \o ".xlsx"

\* The file save_to_excel writes; output_path = "" stands for None.
save_to_excel(notes, tids, output_path, now) ==
    LET path == IF output_path = "" THEN get_output_path(tids, now) ELSE output_path
    IN  to_excel(DataFrame_notes(notes), path)

\* The file update_input_date writes: the whole store is replaced.
update_input_date(current_date) == to_excel(DataFrame_date(current_date), ConfigPath)

\* read_input_date's result: the formatted date, or an error.
read_input_date(file, io_ok) ==
    LET df == read_excel(file, io_ok)
    IN  IF ~df.ok THEN [ok |-> FALSE, v |-> ""]
        ELSE IF df.rows = <<>> THEN [ok |-> FALSE, v |-> ""]
        ELSE IF df.rows[1] = <<>> THEN [ok |-> FALSE, v |-> ""]
        ELSE LET date_str == df.rows[1][1]
                 dt == IF date_str.type = "datetime"
                       THEN [ok |-> TRUE, t |-> date_str.t]
                       ELSE to_datetime(date_str.s)
             IN  IF dt.ok THEN [ok |-> TRUE, v |-> strftime_iso(dt.t)]
                 ELSE [ok |-> FALSE, v |-> ""]

\* ---------------------------------------------------------------------
\* Inputs
\* ---------------------------------------------------------------------
ApiBaseUrl == "https://test-api.example.com"

\* os.environ: API_BASE_URL set, set to "", or not set.
Environs ==
    {[API_BASE_URL |-> ApiBaseUrl], [API_BASE_URL |-> ""], [HOME |-> "/root"]}

\* Note records of a response: well formed with images, without n_imgs and
\* with an empty n_imgs; without a note text; keyed by the field names.
NoteRecords ==
    {[n_ans |-> "X", n_imgs |-> <<"i1", "i2">>],
     [n_ans |-> "Y"],
     [n_ans |-> "Z", n_imgs |-> <<>>],
     [n_imgs |-> <<"i1">>],
     [note |-> "X", note_images |-> <<"i3">>]}

ResponseTopicIds == {"TDS", "tds"}

\* The topics holding j - 1 note records.
TopicsOfWeight(j) ==
    {[t_m_id |-> id, n_data |-> nd] :
        id \in ResponseTopicIds, nd \in [1..(j - 1) -> NoteRecords]}
    \cup {[n_data |-> nd] : nd \in [1..(j - 1) -> NoteRecords]}
    \cup (IF j = 1 THEN {[t_m_id |-> id] : id \in ResponseTopicIds} ELSE {})

RECURSIVE TopicLists(_)
\* The topic lists holding at most w topics and note records together.
TopicLists(w) ==
    {<<>>} \cup UNION {{<<t>> \o rest : t \in TopicsOfWeight(j),
                                        rest \in TopicLists(w - j)} : j \in 1..w}

\* The JSON bodies the endpoint can answer with.
Responses(w) ==
    {[data |-> ts] : ts \in TopicLists(w)} \cup {[message |-> "no notes"]}

\* The fixture of the tests, an empty result, a note without text under a
\* requested topic, and a body without "data".
sample_api_response ==
    [data |-> <<[t_m_id |-> "TDS",
                 n_data |-> <<[n_ans |-> "X", n_imgs |-> <<"i1", "i2">>],
                              [n_ans |-> "Y", n_imgs |-> <<>>]>>],
                [t_m_id |-> "OTHER",
                 n_data |-> <<[n_ans |-> "Z", n_imgs |-> <<>>]>>]>>]

FetchResponses ==
    {sample_api_response,
     [data |-> <<>>],
     [data |-> <<[t_m_id |-> "TDS",
                  n_data |-> <<[n_ans |-> "X"], [n_imgs |-> <<"i1">>]>>]>>],
     [message |-> "no notes"]}

\* process()'s topic_ids: its default, main()'s default, several, none.
TopicArgs ==
    {PyStr("TDS"), PyList(<<"TDS">>), PyList(<<"tds", "TDS">>), PyList(<<>>)}

\* What config.xlsx holds before the first run, with the timestamp it stands
\* for (t = -1: none).
InitialStores ==
    {[file |-> NoFile, t |-> -1],
     [file |-> to_excel([columns |-> <<"LastFetchDate">>, data |-> <<>>], ConfigPath),
      t |-> -1],
     [file |-> to_excel([columns |-> <<"LastFetchDate">>,
                         data |-> << <<StrCell("n/a")>> >>], ConfigPath),
      t |-> -1],
     [file |-> to_excel(DataFrame_date(0), ConfigPath), t |-> 0],
     [file |-> to_excel(DataFrame_date(1), ConfigPath), t |-> 1],
     [file |-> to_excel([columns |-> <<"Date">>,
                         data |-> << <<StrCell("1970-01-01 00:00:00")>> >>], ConfigPath),
      t |-> 0]}

\* A call of a stage, as process() makes it.
Call(stage, ok) == [stage |-> stage, ok |-> ok]

\* ---------------------------------------------------------------------
\* The program
\* ---------------------------------------------------------------------
Init ==
    /\ clock = 1
    /\ default_date = 0
    /\ environ = [HOME |-> "/root"]
    /\ base_url = ""
    /\ \E st \in InitialStores :
          /\ config_file = st.file
          /\ config_at_start = st.file
          /\ last_written = st.t
    /\ output_file = NoFile
    /\ request_url = ""
    /\ pc = "unloaded"
    /\ topic_ids = PyStr("TDS")
    /\ input_date = ""
    /\ api_data = [message |-> "no notes"]
    /\ filtered_notes = <<>>
    /\ calls = <<>>
    /\ io_log = {}
    /\ write_at = 0

\* Time passes.
Tick ==
    /\ clock < MaxClock
    /\ clock' = clock + 1
    /\ UNCHANGED <<default_date, environ, base_url, config_file, output_file,
                   request_url, pc, topic_ids, input_date, api_data,
                   filtered_notes, calls, io_log, config_at_start, last_written,
                   write_at>>

\* The module is imported: load_dotenv() fills the environment and the def of
\* update_input_date evaluates its default, datetime.now().
Import ==
    /\ pc = "unloaded"
    /\ \E e \in Environs : environ' = e
    /\ default_date' = clock
    /\ io_log' = {}
    /\ pc' = "loaded"
    /\ UNCHANGED <<clock, base_url, config_file, output_file, request_url,
                   topic_ids, input_date, api_data, filtered_notes, calls,
                   config_at_start, last_written, write_at>>

\* __init__ without the check of base_url.
Construct_unchecked ==
    /\ pc = "loaded"
    /\ base_url' = Get(environ, "API_BASE_URL", "")
    /\ pc' = "constructed"
    /\ UNCHANGED <<clock, default_date, environ, config_file, output_file,
                   request_url, topic_ids, input_date, api_data, filtered_notes,
                   calls, io_log, config_at_start, last_written, write_at>>

\* NotesDataFetcher.__init__
Construct ==
    /\ pc = "loaded"
    /\ base_url' = Get(environ, "API_BASE_URL", "")
    /\ pc' = IF base_url' = "" THEN "ConfigError" ELSE "constructed"
    /\ UNCHANGED <<clock, default_date, environ, config_file, output_file,
                   request_url, topic_ids, input_date, api_data, filtered_notes,
                   calls, io_log, config_at_start, last_written, write_at>>

\* process(topic_ids) is entered.
ProcessCall ==
    /\ pc \in {"constructed", "Done", "Failed"}
    /\ \E t \in TopicArgs : topic_ids' = t
    /\ pc' = "ReadState"
    /\ input_date' = ""
    /\ api_data' = [message |-> "no notes"]
    /\ filtered_notes' = <<>>
    /\ calls' = <<>>
    /\ request_url' = ""
    /\ output_file' = NoFile
    /\ write_at' = 0
    /\ config_at_start' = config_file
    /\ UNCHANGED <<clock, default_date, environ, base_url, config_file, io_log,
                   last_written>>

\* read_input_date with a store that is missing or unreadable replaced by a
\* fresh one holding the current time.
ReadInputDate_create ==
    /\ pc = "ReadState"
    /\ io_log' = io_log \cup {"state_read"}
    /\ \E io_ok \in BOOLEAN :
          LET r == read_input_date(config_file, io_ok)
          IN  IF r.ok
              THEN /\ input_date' = r.v
                   /\ UNCHANGED <<config_file, last_written>>
              ELSE /\ input_date' = strftime_iso(clock)
                   /\ config_file' = update_input_date(clock)
                   /\ last_written' = clock
    /\ pc' = "Fetch"
    /\ calls' = Append(calls, Call("ReadState", TRUE))
    /\ UNCHANGED <<clock, default_date, environ, base_url, output_file,
                   request_url, topic_ids, api_data, filtered_notes,
                   config_at_start, write_at>>

\* read_input_date whose error is logged and not raised again.
ReadInputDate_swallow ==
    /\ pc = "ReadState"
    /\ io_log' = io_log \cup {"state_read"}
    /\ \E io_ok \in BOOLEAN :
          LET r == read_input_date(config_file, io_ok)
          IN  /\ input_date' = r.v
              /\ calls' = Append(calls, Call("ReadState", r.ok))
    /\ pc' = "Fetch"
    /\ UNCHANGED <<clock, default_date, environ, base_url, config_file,
                   output_file, request_url, topic_ids, api_data, filtered_notes,
                   config_at_start, last_written, write_at>>

\* input_date = self.read_input_date()
ReadInputDate ==
    /\ pc = "ReadState"
    /\ io_log' = io_log \cup {"state_read"}
    /\ \E io_ok \in BOOLEAN :
          LET r == read_input_date(config_file, io_ok)
          IN  IF r.ok
              THEN /\ input_date' = r.v
                   /\ pc' = "Fetch"
                   /\ calls' = Append(calls, Call("ReadState", TRUE))
              ELSE /\ pc' = "Failed"
                   /\ calls' = Append(calls, Call("ReadState", FALSE))
                   /\ UNCHANGED input_date
    /\ UNCHANGED <<clock, default_date, environ, base_url, config_file,
                   output_file, request_url, topic_ids, api_data, filtered_notes,
                   config_at_start, last_written, write_at>>

\* api_data = self.fetch_data(input_date)
FetchData ==
    /\ pc = "Fetch"
    /\ io_log' = io_log \cup {"fetch"}
    /\ request_url' = base_url \o "/get_notes_ankiconnect/" \o input_date \o "/False"
    /\ \/ \E r \in FetchResponses :
             /\ api_data' = r
             /\ pc' = "Extract"
             /\ calls' = Append(calls, Call("Fetch", TRUE))
       \/ /\ pc' = "Failed"
          /\ calls' = Append(calls, Call("Fetch", FALSE))
          /\ UNCHANGED api_data
    /\ UNCHANGED <<clock, default_date, environ, base_url, config_file,
                   output_file, topic_ids, input_date, filtered_notes,
                   config_at_start, last_written, write_at>>

\* filtered_notes = self.extract_notes_by_topic_ids(api_data, topic_ids)
ExtractNotes ==
    /\ pc = "Extract"
    /\ LET r == extract_notes_by_topic_ids(api_data, topic_ids)
       IN  IF r.ok
           THEN /\ filtered_notes' = r.rows
                /\ pc' = "Write"
                /\ calls' = Append(calls, Call("Extract", TRUE))
           ELSE /\ pc' = "Failed"
                /\ calls' = Append(calls, Call("Extract", FALSE))
                /\ UNCHANGED filtered_notes
    /\ UNCHANGED <<clock, default_date, environ, base_url, config_file,
                   output_file, request_url, topic_ids, input_date, api_data,
                   io_log, config_at_start, last_written, write_at>>

\* self.save_to_excel(filtered_notes, topic_ids)
SaveToExcel ==
    /\ pc = "Write"
    /\ io_log' = io_log \cup {"output_write"}
    /\ \/ /\ output_file' = save_to_excel(filtered_notes, topic_ids, "", clock)
          /\ write_at' = clock
          /\ pc' = "PersistState"
          /\ calls' = Append(calls, Call("Write", TRUE))
       \/ /\ pc' = "Failed"
          /\ calls' = Append(calls, Call("Write", FALSE))
          /\ UNCHANGED <<output_file, write_at>>
    /\ UNCHANGED <<clock, default_date, environ, base_url, config_file,
                   request_url, topic_ids, input_date, api_data, filtered_notes,
                   config_at_start, last_written>>

\* update_input_date appending a record to the store it finds.
UpdateInputDate_append ==
    /\ pc = "PersistState"
    /\ io_log' = io_log \cup {"state_write"}
    /\ \/ /\ config_file' = [config_file EXCEPT
                                !.rows = @ \o update_input_date(default_date).rows]
          /\ last_written' = default_date
          /\ pc' = "Done"
          /\ calls' = Append(calls, Call("PersistState", TRUE))
       \/ /\ pc' = "Failed"
          /\ calls' = Append(calls, Call("PersistState", FALSE))
          /\ UNCHANGED <<config_file, last_written>>
    /\ UNCHANGED <<clock, default_date, environ, base_url, output_file,
                   request_url, topic_ids, input_date, api_data, filtered_notes,
                   config_at_start, write_at>>

\* update_input_date whose error strikes after the store was overwritten.
UpdateInputDate_torn ==
    /\ pc = "PersistState"
    /\ io_log' = io_log \cup {"state_write"}
    /\ config_file' = update_input_date(default_date)
    /\ last_written' = default_date
    /\ \/ /\ pc' = "Done"
          /\ calls' = Append(calls, Call("PersistState", TRUE))
       \/ /\ pc' = "Failed"
          /\ calls' = Append(calls, Call("PersistState", FALSE))
    /\ UNCHANGED <<clock, default_date, environ, base_url, output_file,
                   request_url, topic_ids, input_date, api_data, filtered_notes,
                   config_at_start, write_at>>

\* self.update_input_date(): current_date is the default, fixed at import.
UpdateInputDate ==
    /\ pc = "PersistState"
    /\ io_log' = io_log \cup {"state_write"}
    /\ \/ /\ config_file' = update_input_date(default_date)
          /\ last_written' = default_date
          /\ pc' = "Done"
          /\ calls' = Append(calls, Call("PersistState", TRUE))
       \/ /\ pc' = "Failed"
          /\ calls' = Append(calls, Call("PersistState", FALSE))
          /\ UNCHANGED <<config_file, last_written>>
    /\ UNCHANGED <<clock, default_date, environ, base_url, output_file,
                   request_url, topic_ids, input_date, api_data, filtered_notes,
                   config_at_start, write_at>>

\* The interpreter exits: main() returned or re-raised.
Exit ==
    /\ pc \in {"loaded", "constructed", "ConfigError", "Done", "Failed"}
    /\ pc' = "unloaded"
    /\ environ' = [HOME |-> "/root"]
    /\ base_url' = ""
    /\ topic_ids' = PyStr("TDS")
    /\ input_date' = ""
    /\ api_data' = [message |-> "no notes"]
    /\ filtered_notes' = <<>>
    /\ calls' = <<>>
    /\ request_url' = ""
    /\ output_file' = NoFile
    /\ write_at' = 0
    /\ io_log' = {}
    /\ default_date' = 0
    /\ config_at_start' = config_file
    /\ UNCHANGED <<clock, config_file, last_written>>

Next ==
    \/ Tick
    \/ Import
    \/ Construct
    \/ ProcessCall
    \/ ReadInputDate
    \/ FetchData
    \/ ExtractNotes
    \/ SaveToExcel
    \/ UpdateInputDate
    \/ Exit

Spec == Init /\ [][Next]_vars

\* process() entered at its Extract stage with any response of the endpoint.
InitExtract ==
    /\ clock = 1
    /\ default_date = 1
    /\ environ = [API_BASE_URL |-> ApiBaseUrl]
    /\ base_url = ApiBaseUrl
    /\ config_file = update_input_date(0)
    /\ config_at_start = update_input_date(0)
    /\ last_written = 0
    /\ output_file = NoFile
    /\ input_date = strftime_iso(0)
    /\ request_url = ApiBaseUrl \o "/get_notes_ankiconnect/" \o strftime_iso(0) \o "/False"
    /\ pc = "Extract"
    /\ topic_ids \in TopicArgs
    /\ api_data \in Responses(MaxRespSize)
    /\ filtered_notes = <<>>
    /\ calls = <<Call("ReadState", TRUE), Call("Fetch", TRUE)>>
    /\ io_log = {"state_read", "fetch"}
    /\ write_at = 0

NextExtract ==
    \/ ExtractNotes
    \/ SaveToExcel
    \/ UpdateInputDate

SpecExtract == InitExtract /\ [][NextExtract]_vars

\* ---------------------------------------------------------------------
\* Properties
\* ---------------------------------------------------------------------
StageOrder == <<"ReadState", "Fetch", "Extract", "Write", "PersistState">>

StageIndex(stage) == CHOOSE i \in 1..Len(StageOrder) : StageOrder[i] = stage

InRun == pc \in {"ReadState", "Fetch", "Extract", "Write", "PersistState"}

\* The topic identifiers requested, as a set, each kept whole.
RequestedIds ==
    IF topic_ids.kind = "str" THEN {topic_ids.s}
    ELSE {topic_ids.l[i] : i \in DOMAIN topic_ids.l}

\* C1: the stages of a run are invoked in the order ReadState, Fetch, Extract,
\* Write, PersistState, each at most once and only after the one before it
\* succeeded; Fetch gets the date ReadState returned, Extract the response of
\* Fetch, Write the rows of Extract; a failed stage ends the run in Failed with
\* no later stage invoked, and a run ends in Done exactly when all five
\* succeeded.
C1_StagesInOrder ==
    LET n == Len(calls)
    IN  /\ n <= Len(StageOrder)
        /\ \A i \in 1..n : calls[i].stage = StageOrder[i]
        /\ \A i \in 1..(n - 1) : calls[i].ok
        /\ InRun => n = StageIndex(pc) - 1
        /\ pc = "Failed" => n >= 1 /\ ~calls[n].ok
        /\ pc = "Done" <=> (n = Len(StageOrder) /\ calls[n].ok)
        /\ n < 2 => request_url = ""
        /\ n >= 2 => request_url =
                       base_url \o "/get_notes_ankiconnect/" \o input_date \o "/False"
        /\ (n >= 3 /\ calls[3].ok) =>
               filtered_notes = extract_notes_by_topic_ids(api_data, topic_ids).rows
        /\ (n >= 4 /\ calls[4].ok) =>
               /\ output_file.exists
               /\ Len(output_file.rows) = Len(filtered_notes)
               /\ \A i \in 1..Len(filtered_notes) :
                     output_file.rows[i] = <<filtered_notes[i].topic_id,
                                             filtered_notes[i].note,
                                             filtered_notes[i].images>>
        /\ (n < 4 \/ ~calls[4].ok) => ~output_file.exists

C1_Witness ==
    /\ pc = "Done"
    /\ Len(calls) = 5
    /\ filtered_notes # <<>>

C3_SinceIsLastPersisted ==
    /\ config_file.exists => Len(config_file.rows) <= 1
    /\ (Len(calls) >= 2 /\ pc # "Done") =>
          /\ last_written >= 0
          /\ input_date = "1970-01-01 00:00:0" \o ToString(last_written \div TicksPerSec)
          /\ request_url = base_url \o "/get_notes_ankiconnect/1970-01-01 00:00:0"
                              \o ToString(last_written \div TicksPerSec) \o "/False"

\* A run fetches with a timestamp an earlier run wrote (the initial stores
\* hold times below one second).
C3_Witness ==
    /\ pc = "Extract"
    /\ last_written >= TicksPerSec
    /\ request_url # ""

\* C4: the timestamp a successful run persists is not earlier than the time
\* at which the run's output was written.
C4_PersistedIsNow ==
    pc = "Done" => config_file.rows[1][1].t >= write_at

\* C6: the document save_to_excel writes has the header topic_id, note,
\* images and one data row per extracted row, in order, also for no rows.
C6_HeaderAndRows ==
    output_file.exists =>
        /\ output_file.header = <<"topic_id", "note", "images">>
        /\ Len(output_file.rows) = Len(filtered_notes)
        /\ \A i \in 1..Len(filtered_notes) :
              output_file.rows[i] = <<filtered_notes[i].topic_id,
                                      filtered_notes[i].note,
                                      filtered_notes[i].images>>

\* C7: without an output path the document is named
\* output/{topic ids, each whole, joined by "_"}_notes_{YYYYMMDD_HHMMSS}.xlsx.
C7_OutputPath ==
    output_file.exists =>
        output_file.path =
            "output/"
            \o Join("_", IF topic_ids.kind = "str" THEN <<topic_ids.s>> ELSE topic_ids.l)
            \o "_notes_19700101_00000" \o ToString(write_at \div TicksPerSec)
            \o ".xlsx"

\* C8 as claimed: a run begun without a state record ends with one persisted.
C8_CreatedOnFirstRun ==
    (pc \in {"Done", "Failed"} /\ ~config_at_start.exists) => config_file.exists

\* C8: a run begun without a state record fails in ReadState, invokes no
\* other stage, and ends with still no state record.
C8_AbsentStateFailsRun ==
    ((InRun \/ pc \in {"Done", "Failed"}) /\ ~config_at_start.exists) =>
        /\ pc \in {"ReadState", "Failed"}
        /\ pc = "Failed" => calls = <<Call("ReadState", FALSE)>>
        /\ ~config_file.exists
        /\ request_url = ""
        /\ ~output_file.exists

C8_Witness ==
    /\ pc = "Failed"
    /\ ~config_at_start.exists
    /\ Len(calls) = 1

\* C9: when API_BASE_URL is not set or empty, the execution stops in
\* __init__ with a configuration error and reads no state, fetches nothing,
\* writes no output and no state.
C9_NoIoWithoutBaseUrl ==
    (pc # "unloaded" /\ Get(environ, "API_BASE_URL", "") = "") =>
        /\ pc \in {"loaded", "ConfigError"}
        /\ io_log = {}
        /\ request_url = ""
        /\ ~output_file.exists
        /\ config_file = config_at_start

C9_Witness ==
    /\ pc = "ConfigError"
    /\ "API_BASE_URL" \notin DOMAIN environ

\* ---- the extraction, against a reference ----
WellFormedNote(note_data) ==
    /\ "n_ans" \in DOMAIN note_data
    /\ DOMAIN note_data \subseteq {"n_ans", "n_imgs"}

ResponseTopics(R) == IF "data" \in DOMAIN R THEN R.data ELSE <<>>

TopicNotes(topic) == IF "n_data" \in DOMAIN topic THEN topic.n_data ELSE <<>>

WellFormedResponse(R) ==
    \A i \in DOMAIN ResponseTopics(R) :
        \A j \in DOMAIN TopicNotes(ResponseTopics(R)[i]) :
            WellFormedNote(TopicNotes(ResponseTopics(R)[i])[j])

Requested(topic) == "t_m_id" \in DOMAIN topic /\ topic.t_m_id \in RequestedIds

RECURSIVE RefJoin(_)
RefJoin(imgs) ==
    IF Len(imgs) = 0 THEN ""
    ELSE IF Len(imgs) = 1 THEN imgs[1]
    ELSE RefJoin(SubSeq(imgs, 1, Len(imgs) - 1)) \o ", " \o imgs[Len(imgs)]

RefRow(topic, note_data) ==
    [topic_id |-> topic.t_m_id,
     note |-> note_data.n_ans,
     images |-> IF "n_imgs" \in DOMAIN note_data THEN RefJoin(note_data.n_imgs) ELSE ""]

RefTopicRows(topic) ==
    IF Requested(topic)
    THEN [j \in 1..Len(TopicNotes(topic)) |-> RefRow(topic, TopicNotes(topic)[j])]
    ELSE <<>>

RECURSIVE RefRows(_)
RefRows(topics) ==
    IF Len(topics) = 0 THEN <<>>
    ELSE RefRows(SubSeq(topics, 1, Len(topics) - 1)) \o RefTopicRows(topics[Len(topics)])

\* C5: for a response whose note records are all well formed, the extraction
\* succeeds and returns the rows of the requested topics, topic by topic and
\* note by note in response order: the topic id, n_ans, and the n_imgs joined
\* by ", " ("" when n_imgs is empty or absent); every row's topic id was
\* requested, and no requested id or no topic gives no row.
C5_ExtractMatchesReference ==
    (pc # "Extract" /\ WellFormedResponse(api_data)) =>
        /\ calls[3].ok
        /\ filtered_notes = RefRows(ResponseTopics(api_data))
        /\ \A i \in 1..Len(filtered_notes) : filtered_notes[i].topic_id \in RequestedIds
        /\ RequestedIds = {} => filtered_notes = <<>>
        /\ ResponseTopics(api_data) = <<>> => filtered_notes = <<>>

\* Two rows of one topic, and a topic that was not requested.
C5_Witness ==
    /\ pc # "Extract"
    /\ WellFormedResponse(api_data)
    /\ Len(filtered_notes) >= 2
    /\ filtered_notes[1].images = "i1, i2"
    /\ filtered_notes[2].images = ""
    /\ \E i \in DOMAIN ResponseTopics(api_data) : ~Requested(ResponseTopics(api_data)[i])

\* A requested topic holds a note record without n_ans.
LacksNAns(R) ==
    \E i \in DOMAIN ResponseTopics(R) :
        /\ Requested(ResponseTopics(R)[i])
        /\ \E j \in DOMAIN TopicNotes(ResponseTopics(R)[i]) :
              "n_ans" \notin DOMAIN TopicNotes(ResponseTopics(R)[i])[j]

\* A requested topic holds a note record with neither n_ans nor note.
LacksNoteText(R) ==
    \E i \in DOMAIN ResponseTopics(R) :
        /\ Requested(ResponseTopics(R)[i])
        /\ \E j \in DOMAIN TopicNotes(ResponseTopics(R)[i]) :
              /\ "n_ans" \notin DOMAIN TopicNotes(ResponseTopics(R)[i])[j]
              /\ "note" \notin DOMAIN TopicNotes(ResponseTopics(R)[i])[j]

\* C10 as claimed: a note record without n_ans in a requested topic makes the
\* extraction fail.
C10_MissingNAnsFails ==
    (pc # "Extract" /\ LacksNAns(api_data)) => ~calls[3].ok

\* C10: the extraction fails exactly when a note record of a requested topic
\* has its text under neither n_ans nor note; it then returns no row, no
\* output is written and the state store is left alone; note records of other
\* topics and a missing n_imgs never make it fail.
C10_AllOrNothing ==
    pc # "Extract" =>
        /\ calls[3].ok <=> ~LacksNoteText(api_data)
        /\ ~calls[3].ok =>
              /\ pc = "Failed"
              /\ Len(calls) = 3
              /\ filtered_notes = <<>>
              /\ ~output_file.exists
              /\ config_file = config_at_start

\* The extraction fails on the second note of a requested topic.
C10_Witness ==
    /\ pc = "Failed"
    /\ Len(calls) = 3
    /\ \E i \in DOMAIN ResponseTopics(api_data) :
          /\ Requested(ResponseTopics(api_data)[i])
          /\ Len(TopicNotes(ResponseTopics(api_data)[i])) >= 2
          /\ Note(TopicNotes(ResponseTopics(api_data)[i])[1]).ok

====
